---- MODULE Spec2Model ----
(***************************************************************************)
(* The leader-guarded T3 trend bot (src/unnamed/part_000).                 *)
(*                                                                         *)
(* One process loads the module, possibly more than once: each load runs   *)
(* the global.botState presence check, starts an HTTP server of its own    *)
(* and, in the listen callback, starts strategyLoop when the shared        *)
(* isLeader flag is set.  Separate processes do not share global.botState: *)
(* each of them is a run of this model.  The loop polls fetchData, classifies  *)
(* the two T3 series, gates on the 2-hour bar boundary and on the recorded *)
(* trend, logs a flip, calls sendTelegram and broadcasts the log.          *)
(*                                                                         *)
(* One action is one run-to-completion step of the single-threaded host:   *)
(* the code between two awaits.  The awaits are the fetch (wpc = "fetch"), *)
(* the axios.post of sendTelegram (wpc = "post") and the setTimeout sleep  *)
(* (wpc = "sleep").                                                        *)
(*                                                                         *)
(* The numeric T3 smoothing (ema, tillsonT3Series) is floating point and   *)
(* is not computed here: the values it returns for a window are drawn from *)
(* a small set.  Only the order of the last two values of each series      *)
(* reaches the decisions of strategyLoop.                                  *)
(*                                                                         *)
(* Specifications: Spec, SpecLong and SpecLog are the program of part_000  *)
(* (two polls, three polls, a log seeded with 49 events); SpecLive is Spec *)
(* with the fairness of the event loop; SpecBot is the one-process variant *)
(* src/bot.js; SpecColor and SpecFetch apply the color classification and  *)
(* fetchData to inputs of their own.                                       *)
(***************************************************************************)
EXTENDS Integers, Sequences, FiniteSets

VARIABLES
    botState,   \* global.botState, or NoState before the module was loaded
    env,        \* process.env: which of BOT_TOKEN, CHAT_ID are set
    now,        \* Date.now(), in ms
    wpc,        \* per loaded copy of the module: where its code / strategyLoop stands
    loc,        \* per copy: the locals alive across the await of axios.post
    cycles,     \* number of fetchData results consumed so far
    cyc,        \* observation: what the current poll cycle read and did
    fired,      \* observation: number of Trend Events appended per bar boundary
    lastCall,   \* observation: the latest sendTelegram invocation
    prevCall,   \* observation: the sendTelegram invocation before it
    lastSent,   \* observation: invocation time of the latest successful delivery
    probe,      \* input and result of a pure function applied on its own
    mods        \* per copy: its PORT, the order of its load, and the observation
                \* of whether its load created global.botState

vars == <<botState, env, now, wpc, loc, cycles, cyc, fired, lastCall, prevCall, lastSent, probe,
          mods>>

----------------------------------------------------------------------------
(* Bounds of the model *)

NumWorkers == 2
MaxCycles == 2
NumBars == 2
BootTime == 1000000

(* Program constants *)

POLL_INTERVAL == 30000
COOLDOWN == 10 * 60 * 1000
MIN_CANDLES == 20
MAX_LOGS == 50
BAR_SECONDS == 7200
IST_OFFSET_MIN == 330
NULL_TS == -1
DEFAULT_PORT == 10000

\* process.pid of the one process the model is about
ProcessPid == 4242

\* the copies of the module loaded into the process, numbered in the order of
\* their loads: global is per process, so only loads into one process meet the
\* same global.botState; separate processes each are a run of this model with
\* one copy
Workers == 1..NumWorkers
NULL == "null"
Never == 0 - 1
BAR_MS == BAR_SECONDS * 1000

----------------------------------------------------------------------------
(* global.botState *)

NoState == [undefined |-> TRUE]

IsDefined(s) == "isLeader" \in DOMAIN s

NewBotState(pid) ==
    [lastTrend |-> NULL, lastCandleTs |-> NULL_TS, lastAlertTs |-> 0,
     logs |-> <<>>, leaderPID |-> pid, isLeader |-> TRUE]

\* module load, lines 15-27
LoadModule(s, pid) ==
    IF ~IsDefined(s) THEN NewBotState(pid) ELSE [s EXCEPT !.isLeader = FALSE]

RunsStrategyAlways(s) == TRUE

\* server.listen callback (line 204) and the entry check of strategyLoop (line 102)
RunsStrategy(s) == s.isLeader /\ s.isLeader

\* process.env.PORT at the time of a load: unset (0), or another port
EnvPorts == {0, DEFAULT_PORT + 1}

\* line 200: process.env.PORT || 10000
Port(envPort) == IF envPort = 0 THEN DEFAULT_PORT ELSE envPort

NoMod == [port |-> 0, created |-> FALSE]

Loaded(w) == mods[w].port # 0

\* the listen calls of the process are served in the order they were made:
\* every copy loaded before w has had its listen outcome
ListenIsNext(w) == \A v \in Workers : v < w => wpc[v] # "init"

\* the port of w is held by the server of a copy loaded before it
PortTaken(w) == \E v \in Workers : v < w /\ mods[v].port = mods[w].port

----------------------------------------------------------------------------
(* fetchData *)

\* a raw row of data.result: its time in seconds, and whether open, high, low,
\* close and time are all truthy
RawResult(n, tLast, hole) ==
    [i \in 1..n |-> [time |-> tLast - (i - 1) * BAR_SECONDS,
                     complete |-> ~(hole /\ i = n)]]

FirstBar == MAX_LOGS

LatestTimes ==
    {(FirstBar + k) * BAR_SECONDS + off : k \in 0..(NumBars - 1), off \in {0, BAR_SECONDS - 1}}

Responses ==
    {[error |-> TRUE, success |-> FALSE, result |-> <<>>],
     [error |-> FALSE, success |-> FALSE, result |-> <<>>],
     [error |-> FALSE, success |-> TRUE, result |-> <<>>]}
    \cup
    {[error |-> FALSE, success |-> TRUE, result |-> RawResult(n, t, h)] :
        n \in {MIN_CANDLES - 1, MIN_CANDLES}, t \in LatestTimes, h \in BOOLEAN}

\* Array.prototype.sort with (a, b) => a.timestamp - b.timestamp: stable, ascending
InsertByTimestamp(sorted, c) ==
    LET k == Cardinality({j \in 1..Len(sorted) : sorted[j].timestamp <= c.timestamp})
    IN SubSeq(sorted, 1, k) \o <<c>> \o SubSeq(sorted, k + 1, Len(sorted))

RECURSIVE SortFrom(_, _, _)
SortFrom(s, i, acc) ==
    IF i > Len(s) THEN acc ELSE SortFrom(s, i + 1, InsertByTimestamp(acc, s[i]))

SortByTimestamp(s) == SortFrom(s, 1, <<>>)

NullDf == [isNull |-> TRUE, rows |-> <<>>]

\* lines 155-179: null on a throw, an unsuccessful or an empty payload; else the
\* complete rows as candles (timestamp in ms), sorted ascending
fetchData(resp) ==
    IF resp.error \/ ~resp.success \/ Len(resp.result) = 0
    THEN NullDf
    ELSE LET kept == SelectSeq(resp.result, LAMBDA c : c.complete)
             mapped == [i \in 1..Len(kept) |-> [timestamp |-> kept[i].time * 1000]]
         IN [isNull |-> FALSE, rows |-> SortByTimestamp(mapped)]

----------------------------------------------------------------------------
(* Indicator series and colors *)

\* the last two values a smoothed series can end with
Tails == {<<1, 2>>, <<2, 1>>, <<1, 1>>}

\* lines 115-116: what tillsonT3Series returns for the window, one value per
\* candle; the values are not computed (see the head of the module), the series
\* ends with the two values of `tail`
T3SeriesEndingWith(df, tail) ==
    [i \in 1..Len(df) |-> IF i = Len(df) THEN tail[2] ELSE tail[1]]

ColorTieNeutral(series) ==
    [i \in 1..Len(series) |->
        IF i = 1 THEN "yellow"
        ELSE IF series[i] > series[i - 1] THEN "green"
        ELSE IF series[i] < series[i - 1] THEN "red" ELSE "yellow"]

\* lines 118-119: t3.map((v, i) => i ? v > t3[i-1] ? 'green' : 'red' : 'yellow')
Color(series) ==
    [i \in 1..Len(series) |->
        IF i = 1 THEN "yellow"
        ELSE IF series[i] > series[i - 1] THEN "green" ELSE "red"]

\* Array.prototype.at(-1)
AtLast(s) == s[Len(s)]

\* lines 109-119, the part of a cycle that reads no state: the fetched candles,
\* the two smoothed series over them and their colors
Poll(resp, tail1, tail2) ==
    LET df == fetchData(resp)
        t3 == T3SeriesEndingWith(df.rows, tail1)
        t3f == T3SeriesEndingWith(df.rows, tail2)
    IN [df |-> df, color1 |-> Color(t3), color2 |-> Color(t3f)]

Polls == {Poll(r, tail1, tail2) : r \in Responses, tail1 \in Tails, tail2 \in Tails}

InsufficientBelow19(df) == df.isNull \/ Len(df.rows) < MIN_CANDLES - 1

\* line 110: !df || df.length < 20
Insufficient(df) == df.isNull \/ Len(df.rows) < MIN_CANDLES

\* line 122: Math.floor(last.timestamp / 1000 / 7200) * 7200 * 1000
CandleTs(last) == ((last.timestamp \div 1000) \div BAR_SECONDS) * BAR_SECONDS * 1000

IsStaleNever(candleTs, state) == FALSE

\* line 124
IsStale(candleTs, state) == candleTs = state.lastCandleTs

RecordBarNever(state, candleTs) == state

\* line 129
RecordBar(state, candleTs) == [state EXCEPT !.lastCandleTs = candleTs]

UptrendEither(color1, color2) == AtLast(color1) = "green" \/ AtLast(color2) = "green"

\* line 130
Uptrend(color1, color2) == AtLast(color1) = "green" /\ AtLast(color2) = "green"

\* line 131
Downtrend(color1, color2) == AtLast(color1) = "red" /\ AtLast(color2) = "red"

IsFlipAlways(trend, state) == TRUE

\* line 136
IsFlip(trend, state) == trend # state.lastTrend

\* line 137: moment(candleTs).tz('Asia/Kolkata').format('YYYY-MM-DD HH:mm IST'),
\* as <<day number since 1970-01-01, hour, minute>> of the IST wall clock
FormatIST(ms) ==
    LET minutes == (ms \div 60000) + IST_OFFSET_MIN
    IN <<minutes \div 1440, (minutes % 1440) \div 60, minutes % 60>>

AppendLogKeepOldest(logs, entry) ==
    LET pushed == Append(logs, entry)
    IN IF Len(pushed) > MAX_LOGS THEN SubSeq(pushed, 1, MAX_LOGS) ELSE pushed

\* lines 138-139: push, then slice(-50) when longer than 50
AppendLog(logs, entry) ==
    LET pushed == Append(logs, entry)
    IN IF Len(pushed) > MAX_LOGS
       THEN SubSeq(pushed, Len(pushed) - MAX_LOGS + 1, Len(pushed))
       ELSE pushed

AfterCycleReturnsOnNoData(outcome) ==
    IF outcome = "nosignal" THEN "fetch"
    ELSE IF outcome = "insufficient" THEN "off"
    ELSE "sleep"

\* the await a cycle ends at: the sleep of lines 111, 125 and 151, or, after the
\* bare continue of line 133, the next fetchData of line 109
AfterCycle(outcome) == IF outcome = "nosignal" THEN "fetch" ELSE "sleep"

CommitTrendKeepsOld(state, trend) == state

\* line 144
CommitTrend(state, trend) == [state EXCEPT !.lastTrend = trend]

----------------------------------------------------------------------------
(* sendTelegram *)

CooldownNever(state, t) == FALSE

\* line 82
CooldownActive(state, t) == t - state.lastAlertTs < COOLDOWN

HasCredentialsTokenOnly(e) == e.BOT_TOKEN

\* line 87
HasCredentials(e) == e.BOT_TOKEN /\ e.CHAT_ID

\* lines 79-87: what an invocation at time t does before any await
sendTelegramGate(state, t, e) ==
    IF CooldownActive(state, t) THEN "cooldown"
    ELSE IF ~HasCredentials(e) THEN "nocreds"
    ELSE "post"

sendTelegramStampsAttempt(state, l, ok) ==
    [state |-> [state EXCEPT !.lastAlertTs = l.now], threw |-> FALSE]

sendTelegramRethrows(state, l, ok) ==
    [state |-> IF ok THEN [state EXCEPT !.lastAlertTs = l.now] ELSE state,
     threw |-> ~ok]

\* lines 88-96: the await of axios.post returns (ok) or throws (~ok); the catch
\* absorbs the throw
sendTelegramReturn(state, l, ok) ==
    [state |-> IF ok THEN [state EXCEPT !.lastAlertTs = l.now] ELSE state,
     threw |-> FALSE]

----------------------------------------------------------------------------
(* Readers *)

\* lines 184-192: the body the process pid answers GET /health with
Health(state, pid) ==
    [status |-> "ok", trend |-> state.lastTrend, logs |-> Len(state.logs),
     leader |-> IF state.isLeader THEN <<"PID", pid>> ELSE <<"follower">>,
     instances |-> pid]

\* lines 183 and 194-196: what GET /api/logs answers with and what a socket
\* gets on connection
ApiLogs(state) == state.logs

----------------------------------------------------------------------------
(* Observations *)

Snapshot(state) ==
    [lastTrend |-> state.lastTrend, lastCandleTs |-> state.lastCandleTs,
     logs |-> state.logs, lastAlertTs |-> state.lastAlertTs]

NoSnapshot == [lastTrend |-> NULL, lastCandleTs |-> NULL_TS, logs |-> <<>>, lastAlertTs |-> 0]

\* fetched: "none" (no cycle yet), "null" (fetchData returned null) or "rows"
\* (it returned `rows` candles); candleTs, c1, c2: the boundary and the latest
\* colors the cycle computed; prevTs: the boundary the cycle before it computed
Cyc0 ==
    [fetched |-> "none", rows |-> 0, pre |-> NoSnapshot, prevTs |-> NULL_TS,
     candleTs |-> NULL_TS, c1 |-> "none", c2 |-> "none",
     appended |-> 0, notified |-> 0, attempts |-> 0, broadcasts |-> 0,
     notify |-> "none", slept |-> FALSE, done |-> FALSE]

NoCall == [at |-> 0, outcome |-> "none", since |-> Never]

NoLoc == [trend |-> NULL, now |-> 0]

NoProbe == [fn |-> "none"]

Boundaries == {CandleTs([timestamp |-> t * 1000]) : t \in LatestTimes}

----------------------------------------------------------------------------
(* Initial states *)

Envs == [BOT_TOKEN : BOOLEAN, CHAT_ID : BOOLEAN]

Init ==
    /\ botState = NoState
    /\ env \in Envs
    /\ now = BootTime
    /\ wpc = [w \in Workers |-> "boot"]
    /\ loc = [w \in Workers |-> NoLoc]
    /\ cycles = 0
    /\ cyc = Cyc0
    /\ fired = [b \in Boundaries |-> 0]
    /\ lastCall = NoCall
    /\ prevCall = NoCall
    /\ lastSent = Never
    /\ probe = NoProbe
    /\ mods = [w \in Workers |-> NoMod]

----------------------------------------------------------------------------
(* Actions *)

\* the process loads a copy of the module (lines 1-200) and calls
\* server.listen (line 201)
WorkerInit(w, envPort) ==
    /\ wpc[w] = "boot"
    /\ \A v \in Workers : v < w => wpc[v] # "boot"
    /\ botState' = LoadModule(botState, ProcessPid)
    /\ wpc' = [wpc EXCEPT ![w] = "init"]
    /\ mods' = [mods EXCEPT ![w] =
                    [port |-> Port(envPort), created |-> ~IsDefined(botState)]]
    /\ UNCHANGED <<env, now, loc, cycles, cyc, fired, lastCall, prevCall, lastSent, probe>>

\* line 201: the port is in use by the server of an earlier copy; the server
\* emits 'error' (EADDRINUSE), nothing listens for it, and the uncaught
\* exception ends the process with every copy in it: its memory is gone, and
\* what was observed of it ends with it
ListenError(w) ==
    /\ wpc[w] = "init"
    /\ ListenIsNext(w)
    /\ PortTaken(w)
    /\ wpc' = [v \in Workers |-> "exited"]
    /\ botState' = NoState
    /\ loc' = [v \in Workers |-> NoLoc]
    /\ mods' = [v \in Workers |-> NoMod]
    /\ cycles' = 0
    /\ cyc' = Cyc0
    /\ fired' = [b \in Boundaries |-> 0]
    /\ lastCall' = NoCall
    /\ prevCall' = NoCall
    /\ lastSent' = Never
    /\ UNCHANGED <<env, now, probe>>

\* the listen callback (lines 201-207): strategyLoop up to its first await
ListenCallback(w) ==
    /\ wpc[w] = "init"
    /\ ListenIsNext(w)
    /\ ~PortTaken(w)
    /\ wpc' = [wpc EXCEPT ![w] = IF RunsStrategy(botState) THEN "fetch" ELSE "off"]
    /\ UNCHANGED <<botState, env, now, loc, cycles, cyc, fired, lastCall, prevCall, lastSent, probe, mods>>

\* fetchData resolves; the loop body runs to its next await (lines 109-147)
FetchReturn(w, poll, cap) ==
    /\ wpc[w] = "fetch"
    /\ cycles < cap
    /\ cycles' = cycles + 1
    /\ UNCHANGED <<env, now, probe, mods>>
    /\ LET state == botState
           df == poll.df
           begun == [Cyc0 EXCEPT !.fetched = IF df.isNull THEN "null" ELSE "rows",
                                 !.rows = Len(df.rows),
                                 !.pre = Snapshot(state),
                                 !.prevTs = cyc.candleTs]
       IN
       IF Insufficient(df)
       THEN \* lines 110-113
            /\ wpc' = [wpc EXCEPT ![w] = AfterCycle("insufficient")]
            /\ cyc' = [begun EXCEPT !.slept = (AfterCycle("insufficient") = "sleep"),
                                    !.done = TRUE]
            /\ UNCHANGED <<botState, loc, fired, lastCall, prevCall, lastSent>>
       ELSE
       LET color1 == poll.color1
           color2 == poll.color2
           last == df.rows[Len(df.rows)]
           candleTs == CandleTs(last)
           read == [begun EXCEPT !.candleTs = candleTs,
                                 !.c1 = AtLast(color1), !.c2 = AtLast(color2)]
       IN
       IF IsStale(candleTs, state)
       THEN \* lines 124-127
            /\ wpc' = [wpc EXCEPT ![w] = AfterCycle("stale")]
            /\ cyc' = [read EXCEPT !.slept = (AfterCycle("stale") = "sleep"), !.done = TRUE]
            /\ UNCHANGED <<botState, loc, fired, lastCall, prevCall, lastSent>>
       ELSE
       LET marked == RecordBar(state, candleTs)
           uptrend == Uptrend(color1, color2)
           downtrend == Downtrend(color1, color2)
           trend == IF uptrend THEN "UPTREND" ELSE "DOWNTREND"
       IN
       IF ~uptrend /\ ~downtrend
       THEN \* line 133: continue, straight to the next fetchData
            /\ botState' = marked
            /\ wpc' = [wpc EXCEPT ![w] = AfterCycle("nosignal")]
            /\ cyc' = [read EXCEPT !.slept = (AfterCycle("nosignal") = "sleep"), !.done = TRUE]
            /\ UNCHANGED <<loc, fired, lastCall, prevCall, lastSent>>
       ELSE IF ~IsFlip(trend, state)
       THEN \* line 136 false, line 151
            /\ botState' = marked
            /\ wpc' = [wpc EXCEPT ![w] = AfterCycle("same")]
            /\ cyc' = [read EXCEPT !.slept = (AfterCycle("same") = "sleep"), !.done = TRUE]
            /\ UNCHANGED <<loc, fired, lastCall, prevCall, lastSent>>
       ELSE \* lines 137-143
       LET logged == [marked EXCEPT !.logs =
                         AppendLog(@, [trend |-> trend, time |-> FormatIST(candleTs)])]
           gate == sendTelegramGate(logged, now, env)
           called == [read EXCEPT !.appended = 1, !.notified = 1]
       IN
       /\ fired' = [fired EXCEPT ![candleTs] = @ + 1]
       /\ prevCall' = lastCall
       /\ UNCHANGED lastSent
       /\ IF gate = "post"
          THEN \* line 89: await axios.post
               /\ botState' = logged
               /\ wpc' = [wpc EXCEPT ![w] = "post"]
               /\ loc' = [loc EXCEPT ![w] = [trend |-> trend, now |-> now]]
               /\ cyc' = [called EXCEPT !.attempts = 1, !.notify = "pending"]
               /\ lastCall' = [at |-> now, outcome |-> "pending", since |-> lastSent]
          ELSE \* lines 84 / 87: return; then lines 144-151
               /\ botState' = CommitTrend(logged, trend)
               /\ wpc' = [wpc EXCEPT ![w] = AfterCycle("flip")]
               /\ loc' = loc
               /\ cyc' = [called EXCEPT !.notify = gate, !.broadcasts = 1,
                                        !.slept = (AfterCycle("flip") = "sleep"),
                                        !.done = TRUE]
               /\ lastCall' = [at |-> now, outcome |-> gate, since |-> lastSent]

\* axios.post settles (lines 89-96), then lines 144-151
PostReturn(w, ok) ==
    /\ wpc[w] = "post"
    /\ LET r == sendTelegramReturn(botState, loc[w], ok)
           outcome == IF ok THEN "sent" ELSE "failed"
       IN /\ botState' = IF r.threw THEN r.state ELSE CommitTrend(r.state, loc[w].trend)
          /\ cyc' = [cyc EXCEPT !.notify = outcome,
                                !.broadcasts = IF r.threw THEN @ ELSE @ + 1,
                                !.slept = (AfterCycle("flip") = "sleep"), !.done = TRUE]
          /\ lastCall' = [lastCall EXCEPT !.outcome = outcome]
          /\ lastSent' = IF ok THEN loc[w].now ELSE lastSent
    /\ wpc' = [wpc EXCEPT ![w] = AfterCycle("flip")]
    /\ loc' = [loc EXCEPT ![w] = NoLoc]
    /\ UNCHANGED <<env, now, cycles, fired, prevCall, probe, mods>>

\* how long a setTimeout(r, POLL_INTERVAL) sleep lasts: the interval, or longer
\* when the host stalls
SleepTimes == {POLL_INTERVAL, COOLDOWN}

\* the sleep ends (lines 111, 125, 151) and the loop calls fetchData again
Timer(w, d) ==
    /\ wpc[w] = "sleep"
    /\ now' = now + d
    /\ wpc' = [wpc EXCEPT ![w] = "fetch"]
    /\ UNCHANGED <<botState, env, loc, cycles, cyc, fired, lastCall, prevCall, lastSent, probe, mods>>

Step(cap) ==
    \E w \in Workers :
        \/ \E envPort \in EnvPorts : WorkerInit(w, envPort)
        \/ ListenError(w)
        \/ ListenCallback(w)
        \/ \E poll \in Polls : FetchReturn(w, poll, cap)
        \/ \E ok \in BOOLEAN : PostReturn(w, ok)
        \/ \E d \in SleepTimes : Timer(w, d)

Next == Step(MaxCycles)

Spec == Init /\ [][Next]_vars

\* the same program observed for one cycle more
NextLong == Step(MaxCycles + 1)

SpecLong == Init /\ [][NextLong]_vars

\* A monitor that has been running: copy 1 leads and sleeps between cycles,
\* it has logged MAX_LOGS - 1 alternating flips on the bars 1 .. MAX_LOGS - 1 and
\* no delivery has succeeded; no other copy of the module has been loaded yet.
SeedLogs ==
    [i \in 1..(MAX_LOGS - 1) |->
        [trend |-> IF i % 2 = 1 THEN "UPTREND" ELSE "DOWNTREND", time |-> FormatIST(i * BAR_MS)]]

InitLog ==
    /\ botState = [lastTrend |-> SeedLogs[Len(SeedLogs)].trend,
                   lastCandleTs |-> Len(SeedLogs) * BAR_MS,
                   lastAlertTs |-> 0, logs |-> SeedLogs,
                   leaderPID |-> ProcessPid, isLeader |-> TRUE]
    /\ env \in Envs
    /\ now = BootTime
    /\ wpc = [w \in Workers |-> IF w = 1 THEN "sleep" ELSE "boot"]
    /\ loc = [w \in Workers |-> NoLoc]
    /\ cycles = 0
    /\ cyc = Cyc0
    /\ fired = [b \in Boundaries |-> 0]
    /\ lastCall = NoCall
    /\ prevCall = NoCall
    /\ lastSent = Never
    /\ probe = NoProbe
    /\ mods = [w \in Workers |->
                 IF w = 1 THEN [port |-> DEFAULT_PORT, created |-> TRUE]
                 ELSE NoMod]

SpecLog == InitLog /\ [][Next]_vars

\* the event loop runs every callback that is due: a timer that has expired
\* (setTimeout of lines 111, 125, 151) fires, and axios.get (timeout 15000,
\* line 164) and axios.post (timeout 10000, line 88) settle within their timeouts
Fairness ==
    \A w \in Workers :
        /\ WF_vars(\E d \in SleepTimes : Timer(w, d))
        /\ WF_vars(\E ok \in BOOLEAN : PostReturn(w, ok))
        /\ WF_vars(\E poll \in Polls : FetchReturn(w, poll, MaxCycles - 1))

NextLive == Step(MaxCycles - 1)

SpecLive == Init /\ [][NextLive]_vars /\ Fairness

----------------------------------------------------------------------------
(* The pure functions on inputs of their own: the color classification with
   the signal decision, and fetchData on any payload *)

MaxSeries == 3

MaxValue == 2

MaxRows == 3

MaxTime == 3

\* the smoothed series of up to MaxSeries values
SeriesSet == UNION {[1..n -> 1..MaxValue] : n \in 1..MaxSeries}

\* lines 118-119 and 130-131 on the two series t3 and t3f
ClassifyColors(t3, t3f) ==
    /\ probe = NoProbe
    /\ probe' = [fn |-> "colors", t3 |-> t3, t3f |-> t3f,
                 color1 |-> Color(t3), color2 |-> Color(t3f),
                 uptrend |-> Uptrend(Color(t3), Color(t3f)),
                 downtrend |-> Downtrend(Color(t3), Color(t3f))]
    /\ UNCHANGED <<botState, env, now, wpc, loc, cycles, cyc, fired, lastCall, prevCall, lastSent, mods>>

NextColor == \E t3, t3f \in SeriesSet : ClassifyColors(t3, t3f)

SpecColor == Init /\ [][NextColor]_vars

\* the raw rows of a payload: up to MaxRows rows in any order, times in
\* seconds, each row with or without all of open, high, low, close, time
RawRows ==
    UNION {[1..n -> [time : 1..MaxTime, complete : BOOLEAN]] : n \in 0..MaxRows}

Payloads == [error : BOOLEAN, success : BOOLEAN, result : RawRows]

\* lines 155-179 on the payload resp
FetchOnce(resp) ==
    /\ probe = NoProbe
    /\ probe' = [fn |-> "fetchData", resp |-> resp, df |-> fetchData(resp)]
    /\ UNCHANGED <<botState, env, now, wpc, loc, cycles, cyc, fired, lastCall, prevCall, lastSent, mods>>

NextFetch == \E resp \in Payloads : FetchOnce(resp)

SpecFetch == Init /\ [][NextFetch]_vars

----------------------------------------------------------------------------
(* bot.js: the program as one process, without the shared state, the leader
   guard, the cooldown and the bar floor *)

BOT_POLL_INTERVAL == 15000

\* the process that runs bot.js
BotProcess == 1

\* bot.js lines 35-37
BotState0 == [lastTrend |-> NULL, lastCandleTs |-> NULL_TS, logs |-> <<>>]

\* bot.js line 124: Math.floor(last.timestamp)
BotCandleTs(last) == last.timestamp

\* bot.js lines 22-37: the module loads; without both credentials it calls
\* process.exit(1) at line 29, before the state exists and the server listens
BotLoad(w) ==
    /\ wpc[w] = "boot"
    /\ IF ~HasCredentials(env)
       THEN /\ wpc' = [wpc EXCEPT ![w] = "exited"]
            /\ botState' = botState
       ELSE /\ wpc' = [wpc EXCEPT ![w] = "init"]
            /\ botState' = BotState0
    /\ UNCHANGED <<env, now, loc, cycles, cyc, fired, lastCall, prevCall, lastSent, probe, mods>>

\* bot.js lines 170-173: the listen callback starts strategyLoop
BotListen(w) ==
    /\ wpc[w] = "init"
    /\ wpc' = [wpc EXCEPT ![w] = "fetch"]
    /\ UNCHANGED <<botState, env, now, loc, cycles, cyc, fired, lastCall, prevCall, lastSent, probe, mods>>

\* bot.js lines 111-146: one pass of the loop body from the return of
\* fetchData to its next await
BotFetchReturn(w, poll, cap) ==
    /\ wpc[w] = "fetch"
    /\ cycles < cap
    /\ cycles' = cycles + 1
    /\ IF Insufficient(poll.df)
       THEN \* lines 112-115
            /\ wpc' = [wpc EXCEPT ![w] = "sleep"]
            /\ UNCHANGED <<botState, loc>>
       ELSE
       LET candleTs == BotCandleTs(AtLast(poll.df.rows))
           marked == [botState EXCEPT !.lastCandleTs = candleTs]
           uptrend == Uptrend(poll.color1, poll.color2)
           downtrend == Downtrend(poll.color1, poll.color2)
           trend == IF uptrend THEN "UPTREND" ELSE "DOWNTREND"
       IN
       IF candleTs = botState.lastCandleTs
       THEN \* lines 125-128
            /\ wpc' = [wpc EXCEPT ![w] = "sleep"]
            /\ UNCHANGED <<botState, loc>>
       ELSE IF (~uptrend /\ ~downtrend) \/ trend = botState.lastTrend
       THEN \* lines 129, 133-136 and 139 false, 153
            /\ botState' = marked
            /\ wpc' = [wpc EXCEPT ![w] = "sleep"]
            /\ loc' = loc
       ELSE \* lines 140-146: sendTelegram posts without any gate
            /\ botState' = [marked EXCEPT !.logs =
                    AppendLog(@, [trend |-> trend, time |-> FormatIST(candleTs)])]
            /\ wpc' = [wpc EXCEPT ![w] = "post"]
            /\ loc' = [loc EXCEPT ![w] = [trend |-> trend, now |-> now]]
    /\ UNCHANGED <<env, now, cyc, fired, lastCall, prevCall, lastSent, probe, mods>>

\* bot.js lines 67-75 and 147-153: axios.post returns or throws into the catch
\* of sendTelegram; then lastTrend is set, the log is emitted and the loop sleeps
BotPostReturn(w, ok) ==
    /\ wpc[w] = "post"
    /\ botState' = [botState EXCEPT !.lastTrend = loc[w].trend]
    /\ loc' = [loc EXCEPT ![w] = NoLoc]
    /\ wpc' = [wpc EXCEPT ![w] = "sleep"]
    /\ UNCHANGED <<env, now, cycles, cyc, fired, lastCall, prevCall, lastSent, probe, mods>>

\* bot.js lines 113, 126, 134, 153: the timer of the sleep fires
BotTimer(w) ==
    /\ wpc[w] = "sleep"
    /\ now' = now + BOT_POLL_INTERVAL
    /\ wpc' = [wpc EXCEPT ![w] = "fetch"]
    /\ UNCHANGED <<botState, env, loc, cycles, cyc, fired, lastCall, prevCall, lastSent, probe, mods>>

NextBot ==
    \/ BotLoad(BotProcess)
    \/ BotListen(BotProcess)
    \/ \E poll \in Polls : BotFetchReturn(BotProcess, poll, MaxCycles + 1)
    \/ \E ok \in BOOLEAN : BotPostReturn(BotProcess, ok)
    \/ BotTimer(BotProcess)

SpecBot == Init /\ [][NextBot]_vars

----------------------------------------------------------------------------
(* What a finished cycle is read against *)

\* the cycle got at least MIN_CANDLES candles and their boundary was not the recorded one
Evaluated == cyc.fetched = "rows" /\ cyc.rows >= MIN_CANDLES /\ cyc.candleTs # cyc.pre.lastCandleTs

\* the signal the latest colors of the cycle stand for
Signal ==
    IF cyc.c1 = "green" /\ cyc.c2 = "green" THEN "UPTREND"
    ELSE IF cyc.c1 = "red" /\ cyc.c2 = "red" THEN "DOWNTREND"
    ELSE "none"

\* the Trend Event a flip of the cycle carries
Event == [trend |-> Signal, time |-> FormatIST(cyc.candleTs)]

\* the cycle appended nothing, called nobody and left the trend alone
Quiet ==
    /\ cyc.appended = 0
    /\ cyc.notified = 0
    /\ cyc.attempts = 0
    /\ cyc.broadcasts = 0
    /\ botState.logs = cyc.pre.logs
    /\ botState.lastTrend = cyc.pre.lastTrend

Attempted(call) == call.outcome \in {"pending", "sent", "failed"}

Running(w) == wpc[w] \in {"fetch", "post", "sleep"}

\* the copy was loaded after another load had created global.botState
FoundState(w) == Loaded(w) /\ ~mods[w].created

\* the server of the copy is listening and answers its readers
Listening(w) == wpc[w] \in {"off", "fetch", "post", "sleep"}

----------------------------------------------------------------------------
(* Claims *)

\* C1: a cycle whose latest candle yields the same bar boundary as the cycle
\* right before it appends no Trend Event, does not call sendTelegram, does not
\* broadcast and leaves lastTrend unchanged, whatever its colors are.
C1_SameBarNoRefire ==
    (cyc.fetched = "rows" /\ cyc.rows >= MIN_CANDLES
        /\ cyc.prevTs # NULL_TS /\ cyc.candleTs = cyc.prevTs)
    => Quiet

\* C1 witness: the second cycle of the same bar carries a signal opposite to
\* the recorded trend
C1_Witness ==
    /\ cyc.fetched = "rows" /\ cyc.rows >= MIN_CANDLES
    /\ cyc.prevTs # NULL_TS /\ cyc.candleTs = cyc.prevTs
    /\ Signal = "UPTREND" /\ cyc.pre.lastTrend = "DOWNTREND"

\* C2: over any sequence of poll cycles, boundaries A, B, A included, at most
\* one Trend Event is appended (and sendTelegram called at most once) for any
\* given bar boundary.
C2_OncePerBar == \A b \in Boundaries : fired[b] <= 1

\* C3: a cycle whose fetchData returned null or fewer than 20 candles leaves
\* lastTrend, lastCandleTs and the log as they were and calls neither
\* sendTelegram nor the broadcast.
C3_FailedFetchFrame ==
    (cyc.fetched = "null" \/ (cyc.fetched = "rows" /\ cyc.rows < MIN_CANDLES))
    => (Quiet /\ botState.lastCandleTs = cyc.pre.lastCandleTs)

\* C3 witness: 19 candles arrive at a monitor that has logged a flip
C3_Witness ==
    /\ cyc.fetched = "rows" /\ cyc.rows = MIN_CANDLES - 1
    /\ cyc.pre.logs # <<>>
    /\ cycles >= 2

\* C4: the log never holds more than 50 entries, and an append to a log of 50
\* drops exactly the oldest entry and keeps the other 49 in order before the
\* new one.
C4_LogBoundedFifo ==
    IsDefined(botState) =>
        /\ Len(botState.logs) <= MAX_LOGS
        /\ (cyc.appended = 1 /\ Len(cyc.pre.logs) = MAX_LOGS)
            => botState.logs = Append(Tail(cyc.pre.logs), Event)

\* C4 witness: a Trend Event was appended to a log of 50
C4_Witness == cyc.appended = 1 /\ Len(cyc.pre.logs) = MAX_LOGS

\* C5: a finished cycle that evaluated a new bar with a signal: if the signal
\* differs from the recorded trend, exactly one Trend Event carrying it was
\* appended, sendTelegram was called once, the log was broadcast once and
\* lastTrend is the signal; if it equals the recorded trend, nothing happened.
C5_FlipEffects ==
    (Evaluated /\ cyc.done /\ Signal # "none") =>
        IF Signal # cyc.pre.lastTrend
        THEN /\ botState.logs =
                    (IF Len(cyc.pre.logs) < MAX_LOGS THEN Append(cyc.pre.logs, Event)
                     ELSE Append(Tail(cyc.pre.logs), Event))
             /\ cyc.appended = 1
             /\ cyc.notified = 1
             /\ cyc.broadcasts = 1
             /\ botState.lastTrend = Signal
        ELSE Quiet

\* C5 witness: an established downtrend flips to an uptrend on a new bar
C5_Witness ==
    /\ Evaluated /\ cyc.done
    /\ Signal = "UPTREND" /\ cyc.pre.lastTrend = "DOWNTREND"
    /\ cyc.broadcasts = 1

\* C6: on an evaluated bar whose two latest colors disagree (or are neutral)
\* nothing is appended, delivered or broadcast and lastTrend stays; an appended
\* event is an uptrend iff both colors are green, a downtrend iff both are red.
C6_AgreementOnly ==
    (Evaluated /\ cyc.done) =>
        /\ (Signal = "none" => Quiet)
        /\ (cyc.appended = 1 =>
                /\ (AtLast(botState.logs).trend = "UPTREND"
                        <=> (cyc.c1 = "green" /\ cyc.c2 = "green"))
                /\ (AtLast(botState.logs).trend = "DOWNTREND"
                        <=> (cyc.c1 = "red" /\ cyc.c2 = "red")))

\* C6 witness: the colors disagree on a new bar while a trend is recorded
C6_Witness ==
    /\ Evaluated /\ cyc.done
    /\ cyc.c1 = "green" /\ cyc.c2 = "red"
    /\ cyc.pre.lastTrend = "DOWNTREND"

\* C7 as stated: of two sendTelegram invocations less than the cooldown apart
\* the second makes no delivery attempt, whatever the first one's outcome.
C7_NoAttemptWithinCooldown ==
    (prevCall.outcome # "none" /\ lastCall.at - prevCall.at < COOLDOWN)
    => ~Attempted(lastCall)

\* C7 amended: an invocation less than the cooldown after an invocation whose
\* delivery succeeded makes no delivery attempt.
C7_NoAttemptAfterSuccess ==
    (lastCall.outcome # "none" /\ lastCall.since # Never
        /\ lastCall.at - lastCall.since < COOLDOWN)
    => ~Attempted(lastCall)

\* C7 witness: an invocation 30 s after a delivered one was skipped
C7_Witness ==
    /\ lastCall.outcome = "cooldown"
    /\ prevCall.outcome = "sent"
    /\ lastCall.at - prevCall.at = POLL_INTERVAL

\* C8 as stated: with credentials configured, every appended Trend Event has a
\* delivery attempt made for it.
C8_EveryFlipAttempted ==
    (cyc.appended = 1 /\ cyc.done /\ HasCredentials(env)) => cyc.attempts = 1

\* C8 amended: for every appended Trend Event sendTelegram is called exactly
\* once, and a delivery is attempted exactly when both credentials are set and
\* no delivery succeeded less than the cooldown before the call.
C8_FlipNotifiedOnce ==
    cyc.appended = 1 =>
        /\ cyc.notified = 1
        /\ lastCall.outcome # "none"
        /\ (cyc.attempts = 1 <=> Attempted(lastCall))
        /\ (Attempted(lastCall) <=>
                /\ env.BOT_TOKEN /\ env.CHAT_ID
                /\ ~(lastCall.since # Never /\ lastCall.at - lastCall.since < COOLDOWN))

\* C8 witness: with credentials set, a flip was appended and broadcast with no
\* delivery attempt
C8_Witness ==
    /\ cyc.appended = 1 /\ cyc.done /\ cyc.broadcasts = 1
    /\ env.BOT_TOKEN /\ env.CHAT_ID
    /\ cyc.attempts = 0

\* C9: a finished cycle that appended a Trend Event ends with lastTrend the new
\* trend, the event last in the log and one broadcast, for each outcome of
\* sendTelegram (sent, failed, skipped by cooldown, skipped without credentials).
C9_FlipCommittedRegardless ==
    (cyc.appended = 1 /\ cyc.done) =>
        /\ cyc.notify \in {"sent", "failed", "cooldown", "nocreds"}
        /\ botState.lastTrend = Signal
        /\ AtLast(botState.logs) = Event
        /\ cyc.broadcasts = 1
        /\ cyc.slept

\* C9 witness: the delivery of a flip failed
C9_Witness == cyc.appended = 1 /\ cyc.done /\ cyc.notify = "failed"

\* C10: at most one worker executes the strategy loop, and no worker that
\* found pre-existing shared state executes it.
C10_SingleMonitor ==
    /\ Cardinality({w \in Workers : Running(w)}) <= 1
    /\ \A w \in Workers : FoundState(w) => ~Running(w)

\* C10 witness: one worker runs the loop and another, which found the shared
\* state, has run its listen callback
C10_Witness ==
    \E w, v \in Workers : Running(w) /\ v # w /\ FoundState(v) /\ wpc[v] = "off"

\* C11: the worker that created global.botState stays identified as leader
\* (the shared isLeader flag stays true) and, once its listen callback has
\* run, executes the strategy loop, in every interleaving of module loads and
\* listen callbacks.
C11_FirstWorkerLeads ==
    \A w \in Workers :
        mods[w].created =>
            /\ botState.isLeader
            /\ wpc[w] # "off"

\* C12: with BOT_TOKEN or CHAT_ID absent the process still starts: it never
\* ends at startup, so that the loop can run and record flips while each
\* sendTelegram does nothing.
C12_StartsWithoutCredentials ==
    ~HasCredentials(env) => \A w \in Workers : wpc[w] # "exited"

\* C13: from the moment sendTelegram is invoked for a flip, a reader that sees
\* the new Trend Event last in the log (GET /api/logs, socket connection) sees
\* that event's trend as the current trend (GET /health).
C13_TrendCommittedBeforeNotify ==
    (IsDefined(botState) /\ cyc.appended = 1) =>
        /\ AtLast(ApiLogs(botState)) = Event
        /\ \A w \in Workers :
               Listening(w) =>
                   Health(botState, ProcessPid).trend = AtLast(ApiLogs(botState)).trend

\* C14: a cycle with at least 20 candles whose boundary differs from the
\* recorded one leaves lastCandleTs equal to that boundary whatever the
\* signal is (none, same trend or flip); a cycle whose boundary is the
\* recorded one changes nothing and calls nobody, whatever its colors are.
C14_BarRecordedWhateverSignal ==
    /\ Evaluated => botState.lastCandleTs = cyc.candleTs
    /\ (cyc.fetched = "rows" /\ cyc.rows >= MIN_CANDLES
            /\ cyc.candleTs = cyc.pre.lastCandleTs) =>
          /\ Quiet
          /\ botState.lastCandleTs = cyc.pre.lastCandleTs

\* C14 witness: the bar was recorded by a cycle that logged nothing, and a
\* later poll of the same bar, whose colors agree on a trend that is not
\* lastTrend, is over
C14_Witness ==
    /\ cyc.done
    /\ cyc.fetched = "rows" /\ cyc.rows >= MIN_CANDLES
    /\ cyc.candleTs = cyc.pre.lastCandleTs
    /\ cyc.pre.logs = <<>>
    /\ Signal # "none" /\ Signal # cyc.pre.lastTrend

\* C15: every finished cycle, whatever its outcome, went through the sleep of
\* POLL_INTERVAL: the loop never waits on the next fetchData right after a
\* cycle without having slept.
C15_EveryCycleSleeps ==
    cyc.done => cyc.slept

\* C16: no step of a cycle, whatever its outcome, takes the strategy loop to
\* an end: a loop that runs goes on running unless the process itself is
\* ended by the failed listen of another copy of the module, and whenever
\* the loop waits on a delivery or sleeps it eventually waits on another
\* fetchData (or the process has been ended that way).
C16_LoopNeverStops ==
    /\ [][\A w \in Workers :
            Running(w) => Running(w)' \/ \E v \in Workers \ {w} : ListenError(v)]_vars
    /\ \A w \in Workers :
          wpc[w] \in {"post", "sleep"} ~> wpc[w] \in {"fetch", "exited"}

\* C16 witness: after a cycle whose delivery failed, the loop has slept and
\* waits on another fetchData
C16_Witness ==
    \E w \in Workers :
        /\ wpc[w] = "fetch"
        /\ cyc.done /\ cyc.notify = "failed"

\* C17: lastAlertTs is the invocation time of the latest successful delivery
\* (0 before any): a cycle whose sendTelegram was skipped by the cooldown,
\* skipped for missing credentials, or whose delivery failed leaves it as it
\* was when the cycle began, and so does a cycle that did not call it.
C17_CooldownStampOnlyOnSuccess ==
    IsDefined(botState) =>
        /\ botState.lastAlertTs = (IF lastSent = Never THEN 0 ELSE lastSent)
        /\ cyc.notify # "sent" => botState.lastAlertTs = cyc.pre.lastAlertTs
        /\ cyc.notify = "sent" => botState.lastAlertTs = lastCall.at

\* C17 witness: a delivery is attempted less than the cooldown after an
\* attempt that failed
C17_Witness ==
    /\ prevCall.outcome = "failed"
    /\ Attempted(lastCall)
    /\ lastCall.at - prevCall.at < COOLDOWN
    /\ botState.lastAlertTs = 0

\* C18: the recorded evaluated-bar timestamp lastCandleTs is none or an exact
\* multiple of the bar duration of 7,200,000 ms.
C18_RecordedBarIsBoundary ==
    "lastCandleTs" \in DOMAIN botState =>
        \/ botState.lastCandleTs = NULL_TS
        \/ botState.lastCandleTs % BAR_MS = 0

\* C19: for any series the first color is neutral (yellow) and each later one
\* is rising (green) exactly when the value is greater than the one before it
\* and falling (red) otherwise, so an equal pair is falling; two series that
\* are both flat on the latest bar give a downtrend and no uptrend.
C19_ColorClassification ==
    probe.fn = "colors" =>
        /\ \A p \in {<<probe.t3, probe.color1>>, <<probe.t3f, probe.color2>>} :
              /\ Len(p[2]) = Len(p[1])
              /\ p[2][1] = "yellow"
              /\ \A i \in 2..Len(p[1]) :
                    /\ p[2][i] = "green" <=> p[1][i] > p[1][i - 1]
                    /\ p[2][i] = "red" <=> p[1][i] <= p[1][i - 1]
        /\ (/\ Len(probe.t3) >= 2 /\ Len(probe.t3f) >= 2
            /\ AtLast(probe.t3) = probe.t3[Len(probe.t3) - 1]
            /\ AtLast(probe.t3f) = probe.t3f[Len(probe.t3f) - 1]) =>
              probe.downtrend /\ ~probe.uptrend

\* C19 witness: two series of different lengths, both flat on the latest bar
C19_Witness ==
    /\ probe.fn = "colors"
    /\ Len(probe.t3) = 3 /\ Len(probe.t3f) = 2
    /\ probe.t3[3] = probe.t3[2]
    /\ probe.t3f[2] = probe.t3f[1]
    /\ probe.downtrend

\* C20: the candles fetchData returns are strictly ascending by timestamp, no
\* two of them with the same timestamp, whatever the order of the raw rows
\* and also when raw rows have equal time values.
C20_StrictlyAscending ==
    (probe.fn = "fetchData" /\ ~probe.df.isNull) =>
        \A i \in 1..(Len(probe.df.rows) - 1) :
            probe.df.rows[i].timestamp < probe.df.rows[i + 1].timestamp

\* C21: whenever a worker sleeps between two cycles, lastTrend is null exactly
\* when the log is empty, and with a non-empty log the trend GET /health
\* reports is the trend of the newest log entry.
C21_TrendAgreesWithLog ==
    \A w \in Workers :
        wpc[w] = "sleep" =>
            /\ botState.lastTrend = NULL <=> ApiLogs(botState) = <<>>
            /\ ApiLogs(botState) # <<>> =>
                  Health(botState, ProcessPid).trend = AtLast(ApiLogs(botState)).trend

\* C21 witness: the monitor sleeps after a cycle that logged a flip whose
\* delivery failed, the cycle before it having logged the opposite flip
C21_Witness ==
    /\ \E w \in Workers : wpc[w] = "sleep"
    /\ cyc.appended = 1 /\ cyc.notify = "failed"
    /\ Len(botState.logs) = 2
    /\ botState.logs[1].trend # botState.logs[2].trend

====
